---------------------------- MODULE Spec2Model ----------------------------
(***************************************************************************)
(* llsed: an HTTP proxy that decodes the inbound JSON body, optionally     *)
(* rewrites it through a JSON-RPC "pre" endpoint, forwards it to the       *)
(* target server, optionally rewrites the target's JSON response through   *)
(* a JSON-RPC "post" endpoint and relays the result (src/llsed.go).        *)
(*                                                                         *)
(* JSON texts on the wire are modelled as syntax trees (WireText); the     *)
(* values Go's encoding/json produces for them (GoValue) are computed by   *)
(* Unmarshal and turned back into text by Marshal, so that the round trip  *)
(* text -> Go value -> text is computed, not assumed.                      *)
(***************************************************************************)
EXTENDS Integers, Sequences, FiniteSets, TLC

(***************************************************************************)
(* JSON numbers.  A number literal is a non-negative integer, held as the  *)
(* pair [hi, lo] that stands for hi * 2^LimbBits + lo (the model needs     *)
(* integers above 2^53, which do not fit the checker's machine integers).  *)
(* Go decodes every JSON number held in an interface{} to a float64.       *)
(***************************************************************************)
MantissaBits == 53
LimbBits == 27

RECURSIVE Pow2(_)
Pow2(n) == IF n <= 0 THEN 1 ELSE 2 * Pow2(n - 1)

RECURSIVE BitLen(_)
BitLen(n) == IF n <= 0 THEN 0 ELSE 1 + BitLen(n \div 2)

Num(hi, lo) == [hi |-> hi, lo |-> lo]
NumBitLen(n) == IF n.hi = 0 THEN BitLen(n.lo) ELSE LimbBits + BitLen(n.hi)

\* strconv.ParseFloat(s, 64) on an integer literal: round to nearest, ties to
\* even, keeping MantissaBits significant bits
RoundFloat64(n) ==
    LET s == NumBitLen(n) - MantissaBits
    IN  IF s <= 0 THEN n
        ELSE LET unit == Pow2(s)
                 q    == n.lo \div unit
                 r    == n.lo % unit
                 up   == r > unit \div 2 \/ (r = unit \div 2 /\ q % 2 = 1)
                 lo2  == (q + (IF up THEN 1 ELSE 0)) * unit
             IN  IF lo2 = Pow2(LimbBits) THEN Num(n.hi + 1, 0) ELSE Num(n.hi, lo2)

\* n + d for a small integer d (positive or negative)
NumAdd(n, d) ==
    LET lo2 == n.lo + d
    IN  IF lo2 < 0 THEN Num(n.hi - 1, lo2 + Pow2(LimbBits))
        ELSE IF lo2 >= Pow2(LimbBits) THEN Num(n.hi + 1, lo2 - Pow2(LimbBits))
        ELSE Num(n.hi, lo2)

\* n mod p, for p up to 10^4
NumMod(n, p) == ((n.hi % p) * (Pow2(LimbBits) % p) + (n.lo % p)) % p
NumDiv10(n) == Num(n.hi \div 10, ((n.hi % 10) * Pow2(LimbBits) + n.lo) \div 10)
\* the number of decimal digits strconv.AppendFloat prints for an integer
RECURSIVE NumDigits(_)
NumDigits(n) == IF n.hi = 0 /\ n.lo < 10 THEN 1 ELSE 1 + NumDigits(NumDiv10(n))

\* the number of trailing decimal zeros of n, counted up to four
TrailingZeros(n) ==
    Cardinality({k \in {10, 100, 1000, 10000} : NumMod(n, k) = 0})

\* strconv.AppendFloat(b, f, 'f', -1, 64) for an integer-valued float64
\* below 2^58: the decimal with the fewest significant digits that parses
\* back to f, and among those the one closest to f.  A decimal parses back
\* to f when it lies between the midpoints to f's neighbours (midpoints
\* included when f's mantissa is even; the lower neighbour of a power of
\* two is half as far away).
ShortestDecimal(n) ==
    LET bl   == NumBitLen(n)
        h    == IF bl > MantissaBits THEN Pow2(bl - MantissaBits - 1) ELSE 0
        even == h = 0 \/ n.lo % (4 * h) = 0
        pow2 == n.lo = 0 /\ n.hi = Pow2(BitLen(n.hi) - 1)
        hl   == IF pow2 THEN h \div 2 ELSE h
        ok   == {d \in (0 - hl)..h :
                    /\ d = h /\ h > 0 => even
                    /\ d = 0 - hl /\ hl > 0 => even}
        abs(d) == IF d < 0 THEN 0 - d ELSE d
        best == CHOOSE d \in ok :
                    \A e \in ok \ {d} :
                        \/ TrailingZeros(NumAdd(n, d)) > TrailingZeros(NumAdd(n, e))
                        \/ /\ TrailingZeros(NumAdd(n, d)) = TrailingZeros(NumAdd(n, e))
                           /\ abs(d) <= abs(e)
    IN  NumAdd(n, best)

(***************************************************************************)
(* JSON texts.  kind "invalid" is a byte string that is not JSON at all;   *)
(* "huge" is a number literal outside the float64 range (1e400).  An       *)
(* object is its member list in textual order (m: [key, val] records), an  *)
(* array its element list (m: texts).                                      *)
(***************************************************************************)
NoBits == Num(0, 0)
NoMembers == <<>>

Wire(k, v, s, m) == [k |-> k, v |-> v, s |-> s, m |-> m]
WInvalid  == Wire("invalid", NoBits, "", NoMembers)
WNull     == Wire("null", NoBits, "", NoMembers)
WNum(n)   == Wire("num", n, "", NoMembers)
WHuge     == Wire("huge", NoBits, "", NoMembers)
WStr(s)   == Wire("str", NoBits, s, NoMembers)
WArrOf(e) == Wire("arr", NoBits, "", e)
WArr      == WArrOf(NoMembers)
WObj(m)   == Wire("obj", NoBits, "", m)
Member(key, val) == [key |-> key, val |-> val]

(***************************************************************************)
(* Strings, character by character                                         *)
(***************************************************************************)
CharAt(s, i) == SubSeq(s, i, i)
Contains(s, c) == \E i \in 1..Len(s) : CharAt(s, i) = c
HasPrefix(s, p) == Len(s) >= Len(p) /\ SubSeq(s, 1, Len(p)) = p
\* the characters of s at positions a..b that exist
Mid(s, a, b) ==
    IF a > Len(s) \/ b < a THEN "" ELSE SubSeq(s, a, IF b > Len(s) THEN Len(s) ELSE b)
\* strings.Index / strings.LastIndex for a character, 0 when it is absent
Index(s, c) ==
    IF Contains(s, c)
    THEN CHOOSE i \in 1..Len(s) : CharAt(s, i) = c /\ \A j \in 1..(i - 1) : CharAt(s, j) # c
    ELSE 0
LastIndex(s, c) ==
    IF Contains(s, c)
    THEN CHOOSE i \in 1..Len(s) :
             CharAt(s, i) = c /\ \A j \in (i + 1)..Len(s) : CharAt(s, j) # c
    ELSE 0
\* strings.Cut(s, c): the text before and after the first occurrence of c
Before(s, c) == IF Contains(s, c) THEN SubSeq(s, 1, Index(s, c) - 1) ELSE s
After(s, c) == IF Contains(s, c) THEN SubSeq(s, Index(s, c) + 1, Len(s)) ELSE ""

Digits == "0123456789"
IsDigit(c) == Contains(Digits, c)
IsLetter(c) == Contains("abcdefghijklmnopqrstuvwxyzABCDEFGHIJKLMNOPQRSTUVWXYZ", c)
IsHex(c) == Contains("0123456789abcdefABCDEF", c)
\* the value of a hex digit
HexVal(c) ==
    IF IsDigit(c) THEN Index(Digits, c) - 1
    ELSE IF Contains("abcdef", c) THEN Index("abcdef", c) + 9
    ELSE Index("ABCDEF", c) + 9

\* the printable ASCII characters in byte order (all but the backquote)
Ascii ==
    " !\"#$%&'()*+,-./0123456789:;<=>?@ABCDEFGHIJKLMNOPQRSTUVWXYZ[\\]^_abcdefghijklmnopqrstuvwxyz{|}~"
CharRank(c) == CHOOSE i \in 1..Len(Ascii) : SubSeq(Ascii, i, i) = c
\* the byte value of a printable ASCII character (the backquote, 96, is left out)
CharCode(c) == IF CharRank(c) <= 64 THEN CharRank(c) + 31 ELSE CharRank(c) + 32

\* s < t in the byte order sort.Strings uses
RECURSIVE StrLess(_, _)
StrLess(s, t) ==
    IF t = "" THEN FALSE
    ELSE IF s = "" THEN TRUE
    ELSE IF Head(s) = Head(t) THEN StrLess(Tail(s), Tail(t))
    ELSE CharRank(Head(s)) < CharRank(Head(t))

\* the keys of a map in the order json.Marshal writes them
RECURSIVE SortKeys(_)
SortKeys(keys) ==
    IF keys = {} THEN <<>>
    ELSE LET first == CHOOSE k \in keys : \A o \in keys \ {k} : StrLess(k, o)
         IN  <<first>> \o SortKeys(keys \ {first})

(***************************************************************************)
(* Go values held in interface{} / map[string]interface{}.                 *)
(*   "err"   the decoder returned an error                                 *)
(*   "nil"   nil interface / nil map (JSON null leaves the target as is)   *)
(*   "float" float64, "string",                                            *)
(*   "slice" []interface{}: f is the sequence of its elements              *)
(*   "map"   map[string]interface{}: f maps its keys to Go values          *)
(***************************************************************************)
NoFields == <<>>
Go(k, v, s, f) == [k |-> k, v |-> v, s |-> s, f |-> f]
GoErr    == Go("err", NoBits, "", NoFields)
GoNil    == Go("nil", NoBits, "", NoFields)
GoMap(f) == Go("map", NoBits, "", f)

\* decoding of a number, string or null into interface{}
UnmarshalLeaf(w) ==
    CASE w.k = "num"  -> Go("float", RoundFloat64(w.v), "", NoFields)
      [] w.k = "str"  -> Go("string", NoBits, w.s, NoFields)
      [] w.k = "null" -> GoNil
      [] w.k = "huge" -> GoErr
      [] OTHER        -> GoErr

RECURSIVE UnmarshalAny(_)

\* the members of an object decoded into a map: a later duplicate key wins
MembersToMap(m) ==
    LET keys == {m[i].key : i \in 1..Len(m)}
        last(key) == CHOOSE i \in 1..Len(m) :
                        /\ m[i].key = key
                        /\ \A j \in 1..Len(m) : m[j].key = key => j <= i
    IN  [key \in keys |-> UnmarshalAny(m[last(key)].val)]

MembersFail(m) == \E i \in 1..Len(m) : UnmarshalAny(m[i].val).k = "err"

\* json.Unmarshal(text, &v) with v an interface{} (JSONRPCResponse.Result,
\* and every value inside a map or slice)
UnmarshalAny(w) ==
    CASE w.k = "arr" ->
             LET elems == [i \in 1..Len(w.m) |-> UnmarshalAny(w.m[i])]
             IN  IF \E i \in 1..Len(w.m) : elems[i].k = "err" THEN GoErr
                 ELSE Go("slice", NoBits, "", elems)
      [] w.k = "obj" -> IF MembersFail(w.m) THEN GoErr ELSE GoMap(MembersToMap(w.m))
      [] OTHER       -> UnmarshalLeaf(w)

\* json.Unmarshal(text, &v) with v a nil map[string]interface{}: only an
\* object or null decodes; null leaves the map nil and is no error
UnmarshalMap(w) ==
    CASE w.k = "obj"  -> IF MembersFail(w.m) THEN GoErr ELSE GoMap(MembersToMap(w.m))
      [] w.k = "null" -> GoNil
      [] OTHER        -> GoErr

\* json.Marshal of a float64, a string or nil
MarshalLeaf(g) ==
    CASE g.k = "float"  -> WNum(ShortestDecimal(g.v))
      [] g.k = "string" -> WStr(g.s)
      [] OTHER          -> WNull

RECURSIVE Marshal(_)

\* the members of a map from the i-th key in sorted order on
RECURSIVE MarshalMembers(_, _)
MarshalMembers(f, i) ==
    LET keys == SortKeys(DOMAIN f)
    IN  IF i > Len(keys) THEN <<>>
        ELSE <<Member(keys[i], Marshal(f[keys[i]]))>> \o MarshalMembers(f, i + 1)

\* json.Marshal of a decoded value: a nil map is "null", a map is an object
\* with its keys sorted, a slice an array of its elements
Marshal(g) ==
    CASE g.k = "map"   -> WObj(MarshalMembers(g.f, 1))
      [] g.k = "slice" -> WArrOf([i \in 1..Len(g.f) |-> Marshal(g.f[i])])
      [] OTHER         -> MarshalLeaf(g)

(***************************************************************************)
(* The length in bytes of the text json.Marshal produces                   *)
(***************************************************************************)
\* encoding/json string escapes: two bytes for the quote, the backslash and
\* the short escapes, six (\u00XX) for the HTML characters, one otherwise
EscLen(c) ==
    IF Contains("\"\\\n\r\t\f", c) THEN 2
    ELSE IF Contains("<>&", c) THEN 6
    ELSE 1
RECURSIVE StringLen(_)
StringLen(s) == IF s = "" THEN 0 ELSE EscLen(CharAt(s, 1)) + StringLen(Mid(s, 2, Len(s)))

RECURSIVE ByteLen(_)
RECURSIVE ElementsLen(_, _)
\* the elements of an array or the members of an object from position i on,
\* with the commas between them and the colon of each member
ElementsLen(m, i) ==
    IF i > Len(m) THEN 0
    ELSE (IF i > 1 THEN 1 ELSE 0)
         + (IF "key" \in DOMAIN m[i]
            THEN 2 + StringLen(m[i].key) + 1 + ByteLen(m[i].val)
            ELSE ByteLen(m[i]))
         + ElementsLen(m, i + 1)
ByteLen(w) ==
    CASE w.k = "null" -> 4
      [] w.k = "num"  -> NumDigits(w.v)
      [] w.k = "str"  -> 2 + StringLen(w.s)
      [] w.k \in {"arr", "obj"} -> 2 + ElementsLen(w.m, 1)
      [] OTHER -> 0

(***************************************************************************)
(* The JSON document a text denotes (RFC 8259 reading, last duplicate key  *)
(* wins, numbers exact): what "the same document" means for two texts.     *)
(***************************************************************************)
DocLeaf(w) == Wire(w.k, w.v, w.s, NoMembers)
RECURSIVE DocOf(_)
DocOf(w) ==
    IF w.k = "obj"
    THEN LET keys == {w.m[i].key : i \in 1..Len(w.m)}
             last(key) == CHOOSE i \in 1..Len(w.m) :
                             /\ w.m[i].key = key
                             /\ \A j \in 1..Len(w.m) : w.m[j].key = key => j <= i
         IN  [k |-> "obj", f |-> [key \in keys |-> DocOf(w.m[last(key)].val)]]
    ELSE IF w.k = "arr"
    THEN [k |-> "arr", f |-> [i \in 1..Len(w.m) |-> DocOf(w.m[i])]]
    ELSE [k |-> w.k, f |-> DocLeaf(w)]

(***************************************************************************)
(* HTTP headers: a map from header name to the list of its values.         *)
(***************************************************************************)
EmptyHeader == [n \in {} |-> <<>>]

\* http.Header.Add
HeaderAdd(h, key, value) ==
    IF key \in DOMAIN h THEN [h EXCEPT ![key] = Append(@, value)]
    ELSE h @@ (key :> <<value>>)

\* http.Header.Set
HeaderSet(h, key, value) ==
    [n \in DOMAIN h \cup {key} |-> IF n = key THEN <<value>> ELSE h[n]]

\* http.Header.Get: the first value, "" when there is none
HeaderGet(h, key) == IF key \in DOMAIN h /\ Len(h[key]) > 0 THEN h[key][1] ELSE ""

\* http.Header.Del
HeaderDel(h, key) == [n \in DOMAIN h \ {key} |-> h[n]]

RECURSIVE AddValues(_, _, _, _)
AddValues(h, key, values, i) ==
    IF i > Len(values) THEN h
    ELSE AddValues(HeaderAdd(h, key, values[i]), key, values, i + 1)

RECURSIVE CopyKeys(_, _, _)
CopyKeys(dst, src, keys) ==
    IF keys = {} THEN dst
    ELSE LET key == CHOOSE n \in keys : TRUE
         IN  CopyKeys(AddValues(dst, key, src[key], 1), src, keys \ {key})

\* a copy that uses Set semantics and keeps the first value of each header only
CopyFirstValues(dst, src) ==
    [n \in DOMAIN dst \cup DOMAIN src |->
        IF n \in DOMAIN src THEN <<src[n][1]>> ELSE dst[n]]

\* for key, values := range src { for _, value := range values { dst.Add } }
CopyHeaders(dst, src) == CopyKeys(dst, src, DOMAIN src)

(***************************************************************************)
(* Message texts: a list of tokens, each a literal or a %v-formatted value *)
(***************************************************************************)
Tok(s) == [s |-> s, g |-> GoNil]
ValTok(g) == [s |-> "%v", g |-> g]

StatusBadRequest == 400
StatusInternalServerError == 500
StatusBadGateway == 502

NoBody == Wire("none", NoBits, "", NoMembers)
\* what the ResponseWriter holds: the header map, and once the header is
\* written the status, the message of http.Error or the body it accepted, and
\* whether fewer body bytes were sent than Content-Length announces (the
\* server then closes the connection)
NoResponse ==
    [written |-> FALSE, status |-> 0, header |-> EmptyHeader,
     text |-> <<>>, body |-> NoBody, short |-> FALSE]

\* http.Error(w, msg, code) on a ResponseWriter whose header is h
HttpError(h, text, code) ==
    [written |-> TRUE, status |-> code,
     header |-> HeaderSet(HeaderSet(h, "Content-Type", "text/plain; charset=utf-8"),
                          "X-Content-Type-Options", "nosniff"),
     text |-> text, body |-> NoBody, short |-> FALSE]

\* strconv.ParseInt(s, 10, 64): an optional sign and decimal digits, in the
\* range of int64.  A value of more than nine digits is held as LengthCap,
\* which is above the length of every body.
RECURSIVE DecVal(_)
DecVal(s) ==
    IF s = "" THEN 0
    ELSE 10 * DecVal(Mid(s, 1, Len(s) - 1)) + HexVal(CharAt(s, Len(s)))
RECURSIVE StripZeros(_)
StripZeros(s) ==
    IF Len(s) > 1 /\ CharAt(s, 1) = "0" THEN StripZeros(Mid(s, 2, Len(s))) ELSE s
MaxInt64Text == "9223372036854775807"
MinInt64Text == "9223372036854775808"
LengthCap == Pow2(30)
ParseInt(s) ==
    LET signed == s # "" /\ Contains("+-", CharAt(s, 1))
        d      == IF signed THEN Mid(s, 2, Len(s)) ELSE s
        z      == StripZeros(d)
        neg    == signed /\ CharAt(s, 1) = "-"
        limit  == IF neg THEN MinInt64Text ELSE MaxInt64Text
    IN  [ok  |-> /\ d # ""
                 /\ \A i \in 1..Len(d) : IsDigit(CharAt(d, i))
                 /\ \/ Len(z) < Len(limit)
                    \/ Len(z) = Len(limit) /\ ~StrLess(limit, z),
         neg |-> neg /\ z # "0",
         v   |-> IF Len(z) > 9 THEN LengthCap ELSE DecVal(z)]

\* net/http bodyAllowedForStatus
BodyAllowedForStatus(status) ==
    ~(status \in 100..199 \/ status = 204 \/ status = 304)

\* net/http checkWriteHeaderCode: WriteHeader panics for such a code
InvalidStatus(code) == code < 100 \/ code > 999

\* w.WriteHeader(code) followed by w.Write(body) on a ResponseWriter whose
\* header is h, for a code WriteHeader takes.  WriteHeader reads the declared
\* length from Content-Length and deletes a value that is no length; a 1xx
\* code other than 101 goes out as an informational header, and the Write then
\* sends the header with 200.  Write refuses the body (and writes none of it)
\* when the status allows none or when it is longer than the declared length.
WriteResponse(h, code, body) ==
    LET cl       == HeaderGet(h, "Content-Length")
        n        == ParseInt(cl)
        valid    == n.ok /\ ~n.neg
        declared == IF cl # "" /\ valid THEN n.v ELSE 0 - 1
        status   == IF code \in 100..199 /\ code # 101 THEN 200 ELSE code
        refused  == \/ ~BodyAllowedForStatus(status)
                    \/ declared # 0 - 1 /\ ByteLen(body) > declared
        sent     == IF refused THEN 0 ELSE ByteLen(body)
    IN  [written |-> TRUE, status |-> status,
         header  |-> IF cl # "" /\ ~valid THEN HeaderDel(h, "Content-Length") ELSE h,
         text    |-> <<>>,
         body    |-> IF refused THEN NoBody ELSE body,
         short   |-> BodyAllowedForStatus(status) /\ declared # 0 - 1 /\ sent < declared]

(***************************************************************************)
(* Configuration                                                           *)
(***************************************************************************)
TransformRule(tag, pre, post) == [tag |-> tag, pre |-> pre, post |-> post]

Pre0  == "http://pre0"
Post0 == "http://post0"
Pre1  == "http://pre1"
Post1 == "http://post1"

\* the rule lists the configuration file may hold
RuleLists ==
    {<<>>}
    \cup {<<TransformRule("r0", pre, post)>> : pre \in {"", Pre0}, post \in {"", Post0}}
    \cup {<<TransformRule("r0", pre, post), TransformRule("r1", Pre1, Post1)>> :
             pre \in {"", Pre0}, post \in {"", Post0}}

\* the file at --map_file: unreadable, not parsable as Config, or a rule list
ConfigFiles ==
    {[readable |-> FALSE, parses |-> FALSE, rules |-> <<>>],
     [readable |-> TRUE,  parses |-> FALSE, rules |-> <<>>]}
    \cup {[readable |-> TRUE, parses |-> TRUE, rules |-> rl] : rl \in RuleLists}

\* values of the --server flag, as token lists; ":bad" (no scheme before the
\* colon) and "http://target%41" (an escape in the host) do not parse as URLs
ServerFlags ==
    {<<"http://target">>, <<"http://target", "/">>, <<":bad">>, <<"http://target%41">>}

NoInstance == [ok |-> FALSE, err |-> "", config |-> <<>>, serverURL |-> <<>>]

\* strings.TrimSuffix(*server, "/")
TrimSuffix(url) ==
    IF Len(url) > 0 /\ url[Len(url)] = "/" THEN SubSeq(url, 1, Len(url) - 1) ELSE url

\* a loader that takes whatever a readable file holds, parsable or not
NewLLMSedLenient(file, serverURL) ==
    IF ~file.readable THEN [NoInstance EXCEPT !.err = "failed to read config"]
    ELSE [ok |-> TRUE, err |-> "", config |-> file.rules, serverURL |-> serverURL]

NewLLMSed(file, serverURL) ==
    IF ~file.readable THEN [NoInstance EXCEPT !.err = "failed to read config"]
    ELSE IF ~file.parses THEN [NoInstance EXCEPT !.err = "failed to parse config"]
    ELSE [ok |-> TRUE, err |-> "", config |-> file.rules, serverURL |-> serverURL]

(***************************************************************************)
(* Bounds and the inputs the environment supplies                          *)
(***************************************************************************)
MaxServed == 2
Slots == {1}

One == Num(0, 1)
Two == Num(0, 2)
Big == Num(Pow2(MantissaBits - LimbBits), 1)      \* 2^53 + 1
Wide == Num(Pow2(MantissaBits - LimbBits + 1), 8) \* 2^54 + 8, a float64

ObjSmall    == WObj(<<Member("a", WNum(One))>>)
ObjUnsorted == WObj(<<Member("b", WStr("x")), Member("a", WNum(Two))>>)
ObjBig      == WObj(<<Member("a", WNum(Big))>>)
ObjHuge     == WObj(<<Member("a", WHuge)>>)
ObjT        == WObj(<<Member("b", WStr("t"))>>)
ObjWide     == WObj(<<Member("x", WNum(Wide))>>)
\* the request of the README's example
ObjNested   ==
    WObj(<<Member("model", WStr("claude-3-opus")),
           Member("messages",
                  WArrOf(<<WObj(<<Member("role", WStr("user")),
                                  Member("content", WStr("Hello!"))>>)>>))>>)

InboundBodies ==
    {WInvalid, WNull, WNum(One), WArr, ObjSmall, ObjUnsorted, ObjBig, ObjHuge, ObjWide,
     ObjNested}

Inbounds ==
    {[method |-> "POST", path |-> "/v1/chat", header |-> ("Authorization" :> <<"k">>)],
     [method |-> "GET", path |-> "/x",
      header |-> ("Accept" :> <<"a", "b">>) @@ ("X-Id" :> <<"7">>)],
     \* the request line GET /a%25zz: r.URL.Path is the decoded path
     [method |-> "GET", path |-> "/a%zz", header |-> EmptyHeader],
     \* the request line GET /a%0Ab: a line feed in the decoded path
     [method |-> "GET", path |-> "/a\nb", header |-> EmptyHeader]}

RPCReplies ==
    {[t |-> "connfail", result |-> WNull, error |-> WNull],
     [t |-> "garbage",  result |-> WNull, error |-> WNull]}
    \cup {[t |-> "env", result |-> res, error |-> WNull] :
             res \in {WNull, WNum(One), WArr, ObjT, ObjBig, ObjHuge}}
    \cup {[t |-> "env", result |-> res, error |-> WStr("boom")] : res \in {WNull, ObjT}}

\* the status lines and headers of the target for a body b: a chunked 200,
\* a 200 that announces the length of the compact text of b, a 500 that
\* announces two bytes of white space more, and the status line HTTP/1.1 099
TargetHeads(b) ==
    {[status |-> 200, header |-> ("X-Test" :> <<"a">>)],
     [status |-> 200, header |-> ("X-Test" :> <<"a">>)
                                  @@ ("Content-Length" :> <<ToString(ByteLen(b))>>)],
     [status |-> 500, header |-> ("X-Test" :> <<"a", "b">>)
                                  @@ ("Content-Type" :> <<"application/json">>)
                                  @@ ("Content-Length" :> <<ToString(ByteLen(b) + 2)>>)],
     [status |-> 99, header |-> ("X-Test" :> <<"a">>)]}

TargetReplies ==
    {[t |-> "connfail", status |-> 0, header |-> EmptyHeader, body |-> NoBody, readOK |-> FALSE],
     [t |-> "resp", status |-> 200, header |-> EmptyHeader, body |-> NoBody, readOK |-> FALSE]}
    \cup UNION {{[t |-> "resp", status |-> hd.status, header |-> hd.header, body |-> b,
                   readOK |-> TRUE] : hd \in TargetHeads(b)} :
                    b \in {WInvalid, WArr, WNull, ObjSmall, ObjUnsorted, ObjBig, ObjNested}}

(***************************************************************************)
(* State                                                                   *)
(***************************************************************************)
VARIABLES
    proc,      \* "starting", "serving" or "exited" (log.Fatalf)
    file,      \* the configuration file found at startup
    flag,      \* the --server flag
    llsed,     \* the *LLMSed built by NewLLMSed, NoInstance before
    req,       \* per handler goroutine: the locals of handleProxy and what it has sent
    served     \* number of requests accepted so far

vars == <<proc, file, flag, llsed, req, served>>

NoRule == TransformRule("", "", "")
NoTarget == [status |-> 0, header |-> EmptyHeader, body |-> NoBody]

NoRPCReply == [t |-> "none", result |-> WNull, error |-> WNull]
NoTargetReply ==
    [t |-> "none", status |-> 0, header |-> EmptyHeader, body |-> NoBody, readOK |-> FALSE]

\* the locals of one handleProxy activation, the calls it has issued (calls),
\* what the network gave it (readOK, preReply, fwdReply, postReply) and what it
\* has written to the client (resp)
IdleReq ==
    [pc |-> "idle", method |-> "", path |-> "", header |-> EmptyHeader, body |-> NoBody,
     readOK |-> FALSE, payload |-> GoNil, rule |-> NoRule, calls |-> <<>>,
     preReply |-> NoRPCReply, fwdReply |-> NoTargetReply, postReply |-> NoRPCReply,
     target |-> NoTarget, responsePayload |-> GoNil, resp |-> NoResponse]

RPCCall(endpoint, payload) ==
    [kind |-> "rpc", method |-> "POST", url |-> <<endpoint>>,
     header |-> ("Content-Type" :> <<"application/json">>),
     rpcMethod |-> "transform", id |-> 1, body |-> Marshal(payload)]

ForwardCall(method, url, header, body) ==
    [kind |-> "forward", method |-> method, url |-> url, header |-> header,
     rpcMethod |-> "", id |-> 0, body |-> body]

\* the string a list of URL parts stands for
RECURSIVE URLText(_)
URLText(url) == IF url = <<>> THEN "" ELSE Head(url) \o URLText(Tail(url))

\* net/url getScheme: the length of the scheme in front of the first ':',
\* 0 when the text has no scheme, -1 for "missing protocol scheme"
RECURSIVE SchemeLen(_, _)
SchemeLen(s, i) ==
    IF i > Len(s) THEN 0
    ELSE IF IsLetter(CharAt(s, i)) THEN SchemeLen(s, i + 1)
    ELSE IF Contains("0123456789+-.", CharAt(s, i))
    THEN IF i = 1 THEN 0 ELSE SchemeLen(s, i + 1)
    ELSE IF CharAt(s, i) = ":" THEN IF i = 1 THEN 0 - 1 ELSE i - 1
    ELSE 0

\* net/url unescape: a '%' that is not followed by two hex digits
BadEscape(s) ==
    \E i \in 1..Len(s) :
        /\ CharAt(s, i) = "%"
        /\ \/ i + 2 > Len(s)
           \/ ~IsHex(CharAt(s, i + 1))
           \/ ~IsHex(CharAt(s, i + 2))

\* net/url stringContainsCTLByte, for the control characters a string of the
\* model can hold
HasCTL(s) == \E i \in 1..Len(s) : Contains("\t\n\f\r", CharAt(s, i))

\* the characters net/url leaves unescaped in a host (shouldEscape, encodeHost)
HostChars ==
    "abcdefghijklmnopqrstuvwxyzABCDEFGHIJKLMNOPQRSTUVWXYZ0123456789!$&'()*+,;=:[]<>\"-_.~"
HostCodeOK(v) == \E i \in 1..Len(HostChars) : CharCode(CharAt(HostChars, i)) = v

\* net/url unescape of a host (zone = FALSE) or of an IPv6 zone (zone = TRUE):
\* every character is a host character; an escape needs two hex digits and,
\* in a host, must be %25 or stand for a byte of 0x80 and above, in a zone
\* must be %25, a space or a host character
HostTextOK(s, zone) ==
    \A i \in 1..Len(s) :
        IF CharAt(s, i) = "%"
        THEN /\ i + 2 <= Len(s)
             /\ IsHex(CharAt(s, i + 1))
             /\ IsHex(CharAt(s, i + 2))
             /\ LET v == 16 * HexVal(CharAt(s, i + 1)) + HexVal(CharAt(s, i + 2))
                IN  \/ Mid(s, i, i + 2) = "%25"
                    \/ ~zone /\ HexVal(CharAt(s, i + 1)) >= 8
                    \/ zone /\ (v = 32 \/ HostCodeOK(v))
        ELSE Contains(HostChars, CharAt(s, i))

\* net/url validOptionalPort: empty, or ':' and digits
ValidOptionalPort(port) ==
    \/ port = ""
    \/ /\ CharAt(port, 1) = ":"
       /\ \A i \in 2..Len(port) : IsDigit(CharAt(port, i))

\* the first position of "%25" in s, 0 when it is absent
ZoneIndex(s) ==
    IF \E i \in 1..Len(s) : Mid(s, i, i + 2) = "%25"
    THEN CHOOSE i \in 1..Len(s) :
             Mid(s, i, i + 2) = "%25" /\ \A j \in 1..(i - 1) : Mid(s, j, j + 2) # "%25"
    ELSE 0

\* net/url parseHost
HostOK(host) ==
    IF HasPrefix(host, "[")
    THEN LET i    == LastIndex(host, "]")
             zone == ZoneIndex(Mid(host, 1, i - 1))
         IN  /\ i > 0
             /\ ValidOptionalPort(Mid(host, i + 1, Len(host)))
             /\ IF zone > 0
                THEN /\ HostTextOK(Mid(host, 1, zone - 1), FALSE)
                     /\ HostTextOK(Mid(host, zone, i - 1), TRUE)
                     /\ HostTextOK(Mid(host, i, Len(host)), FALSE)
                ELSE HostTextOK(host, FALSE)
    ELSE /\ Contains(host, ":") =>
                ValidOptionalPort(Mid(host, LastIndex(host, ":"), Len(host)))
         /\ HostTextOK(host, FALSE)

\* net/url validUserinfo and the unescape of user name and password
UserinfoOK(u) ==
    /\ \A i \in 1..Len(u) :
          \/ IsLetter(CharAt(u, i)) \/ IsDigit(CharAt(u, i))
          \/ Contains("-._:~!$&'()*+,;=%@", CharAt(u, i))
    /\ ~BadEscape(u)

\* net/url parseAuthority: [userinfo@]host[:port]
AuthorityOK(a) ==
    IF Contains(a, "@")
    THEN /\ HostOK(Mid(a, LastIndex(a, "@") + 1, Len(a)))
         /\ UserinfoOK(Mid(a, 1, LastIndex(a, "@") - 1))
    ELSE HostOK(a)

\* http.NewRequest fails when url.Parse rejects the URL.  url.Parse cuts off
\* the fragment, rejects control characters, reads the scheme, cuts off the
\* query (which it does not look at), takes what follows a scheme without a
\* leading '/' as opaque, rejects a colon in the first segment of a relative
\* path, parses the authority after "//" and unescapes path and fragment.
ValidURL(url) ==
    LET s      == URLText(url)
        u      == Before(s, "#")
        n      == SchemeLen(u, 1)
        rest   == Before(IF n > 0 THEN Mid(u, n + 2, Len(u)) ELSE u, "?")
        rooted == HasPrefix(rest, "/")
        auth   == HasPrefix(rest, "//") /\ (n > 0 \/ ~HasPrefix(rest, "///"))
        tail   == Mid(rest, 3, Len(rest))
    IN  /\ ~HasCTL(u)
        /\ \/ u = "*"
           \/ /\ n >= 0
              /\ \/ ~rooted /\ n > 0
                 \/ /\ ~rooted => ~Contains(Before(rest, "/"), ":")
                    /\ IF auth
                       THEN AuthorityOK(Before(tail, "/")) /\ ~BadEscape(After(tail, "/"))
                       ELSE ~BadEscape(rest)
        /\ ~BadEscape(After(s, "#"))

\* an error reply without the return that follows it: the handler goes on
FailNoReturn(r, text, code) ==
    [r EXCEPT !.resp = HttpError(r.resp.header, text, code)]

Fail(r, text, code) ==
    [r EXCEPT !.pc = "done", !.resp = HttpError(r.resp.header, text, code)]

\* a failed type assertion panics; net/http recovers the panic of a handler,
\* logs it and closes the connection: nothing is written to the client
Panic(r) == [r EXCEPT !.pc = "panicked"]

(***************************************************************************)
(* callRPC: the outcome of one transform call given the endpoint's reply   *)
(***************************************************************************)
RPCOk(g) == [err |-> FALSE, text |-> <<>>, value |-> g]
RPCErr(text) == [err |-> TRUE, text |-> text, value |-> GoNil]

\* a client that looks at result first and reports error only without one
callRPCResultFirst(reply) ==
    IF reply.t = "connfail" THEN RPCErr(<<Tok("transport error")>>)
    ELSE IF reply.t = "garbage" THEN RPCErr(<<Tok("decode error")>>)
    ELSE LET result == UnmarshalAny(reply.result)
             error  == UnmarshalAny(reply.error)
         IN  IF result.k = "err" \/ error.k = "err" THEN RPCErr(<<Tok("decode error")>>)
             ELSE IF result.k # "nil" THEN RPCOk(result)
             ELSE IF error.k # "nil" THEN RPCErr(<<Tok("rpc error: "), ValTok(error)>>)
             ELSE RPCOk(result)

callRPC(reply) ==
    IF reply.t = "connfail" THEN RPCErr(<<Tok("transport error")>>)
    ELSE IF reply.t = "garbage" THEN RPCErr(<<Tok("decode error")>>)
    ELSE LET result == UnmarshalAny(reply.result)
             error  == UnmarshalAny(reply.error)
         IN  IF result.k = "err" \/ error.k = "err" THEN RPCErr(<<Tok("decode error")>>)
             ELSE IF error.k # "nil" THEN RPCErr(<<Tok("rpc error: "), ValTok(error)>>)
             ELSE RPCOk(result)

(***************************************************************************)
(* handleProxy, stage by stage.  Each operator maps the handler's locals   *)
(* (r) to their value at the next point where the handler blocks on the    *)
(* network or returns.                                                     *)
(***************************************************************************)
NoRules(rules) == Len(rules) = 0

\* "simple: just use first rule for now"
SelectLastRule(rules) == rules[Len(rules)]
\* a selection that rotates through the rules with the number of requests served
SelectRuleRoundRobin(rules) == rules[(served % Len(rules)) + 1]
SelectRule(rules) == rules[1]

PreConfigured(rule) == rule.pre # ""
PostConfigured(rule) == rule.post # ""

\* Forward: marshal the payload (cannot fail for a decoded value), build the
\* target request with the inbound method, serverURL + path and a copy of
\* the inbound headers, and issue it
Forward(r, inst) ==
    LET targetBody == Marshal(r.payload)
        targetURL  == inst.serverURL \o <<r.path>>
    IN  IF ~ValidURL(targetURL)
        THEN Fail(r, <<Tok("failed to create target request")>>, StatusInternalServerError)
        ELSE [r EXCEPT !.pc = "fwd_wait",
                       !.calls = Append(@, ForwardCall(r.method, targetURL,
                                     CopyHeaders(EmptyHeader, r.header), targetBody))]

\* Pre-transform: issue the call when rule.Pre is set, else go on to Forward
PreTransform(r, inst) ==
    IF PreConfigured(r.rule)
    THEN [r EXCEPT !.pc = "pre_wait", !.calls = Append(@, RPCCall(r.rule.pre, r.payload))]
    ELSE Forward(r, inst)

\* a handler that forwards untransformed when no rule is configured
SelectStagePassThrough(r, inst) ==
    IF NoRules(inst.config) THEN Forward(r, inst)
    ELSE PreTransform([r EXCEPT !.rule = SelectRule(inst.config)], inst)

SelectStage(r, inst) ==
    IF NoRules(inst.config)
    THEN Fail(r, <<Tok("no transformation rules configured")>>, StatusInternalServerError)
    ELSE PreTransform([r EXCEPT !.rule = SelectRule(inst.config)], inst)

\* Receive: read and decode the inbound body, then select the rule
Receive(inst, in, body, readOK) ==
    LET r == [IdleReq EXCEPT !.method = in.method, !.path = in.path,
                             !.header = in.header, !.body = body, !.readOK = readOK]
        payload == UnmarshalMap(body)
    IN  IF ~readOK THEN Fail(r, <<Tok("failed to read request")>>, StatusBadRequest)
        ELSE IF payload.k = "err" THEN Fail(r, <<Tok("invalid json")>>, StatusBadRequest)
        ELSE SelectStage([r EXCEPT !.payload = payload], inst)

\* a handler that goes on with the untransformed payload when the call fails
OnPreErrorFailOpen(r, inst, text) == Forward(r, inst)

\* a handler that tries the pre-transform call a second time before giving up
OnPreErrorRetry(r, inst, text) ==
    IF Len(r.calls) < 2 THEN PreTransform(r, inst)
    ELSE Fail(r, <<Tok("pre-transform failed: ")>> \o text, StatusInternalServerError)

OnPreError(r, inst, text) ==
    Fail(r, <<Tok("pre-transform failed: ")>> \o text, StatusInternalServerError)

\* the pre-transform call has returned
OnPreReply(r0, inst, reply) ==
    LET r   == [r0 EXCEPT !.preReply = reply]
        res == callRPC(reply)
    IN  IF res.err THEN OnPreError(r, inst, res.text)
        ELSE IF res.value.k # "map" THEN Panic(r)
        ELSE Forward([r EXCEPT !.payload = res.value], inst)

\* Send response back: marshal, copy the target's headers, then WriteHeader
\* with the target's status, which panics when the status is no valid code,
\* and Write, whose error is not looked at
Respond(r) ==
    LET h == CopyHeaders(r.resp.header, r.target.header) IN
    IF InvalidStatus(r.target.status)
    THEN Panic([r EXCEPT !.resp.header = h])
    ELSE [r EXCEPT !.pc = "done",
                   !.resp = WriteResponse(h, r.target.status,
                                          Marshal(r.responsePayload))]

\* a handler that writes the response before the post-transform call returns
PostTransformRespondFirst(r) ==
    IF PostConfigured(r.rule)
    THEN [Respond(r) EXCEPT !.pc = "post_wait",
                            !.calls = Append(@, RPCCall(r.rule.post, r.responsePayload))]
    ELSE Respond(r)

PostTransform(r) ==
    IF PostConfigured(r.rule)
    THEN [r EXCEPT !.pc = "post_wait",
                   !.calls = Append(@, RPCCall(r.rule.post, r.responsePayload))]
    ELSE Respond(r)

\* a handler that relays the target's status with its own message
OnBadTargetBodyRelayStatus(r) ==
    Fail(r, <<Tok("invalid response from target")>>, r.target.status)

OnBadTargetBody(r) ==
    Fail(r, <<Tok("invalid response from target")>>, StatusBadGateway)

\* the forward call has returned
OnTargetReply(r0, reply) ==
    LET r == [r0 EXCEPT !.fwdReply = reply] IN
    IF reply.t = "connfail"
    THEN Fail(r, <<Tok("failed to forward request: "), Tok("transport error")>>,
              StatusBadGateway)
    ELSE LET r1 == [r EXCEPT !.target = [status |-> reply.status,
                                         header |-> reply.header, body |-> reply.body]]
             responsePayload == UnmarshalMap(reply.body)
         IN  IF ~reply.readOK
             THEN Fail(r1, <<Tok("failed to read response")>>, StatusInternalServerError)
             ELSE IF responsePayload.k = "err" THEN OnBadTargetBody(r1)
             ELSE PostTransform([r1 EXCEPT !.responsePayload = responsePayload])

\* a handler that reports a post failure with the pre stage's message
OnPostErrorAsPre(r, text) ==
    Fail(r, <<Tok("pre-transform failed: ")>> \o text, StatusInternalServerError)

OnPostError(r, text) ==
    Fail(r, <<Tok("post-transform failed: ")>> \o text, StatusInternalServerError)

\* the post-transform call has returned
OnPostReply(r0, reply) ==
    LET r   == [r0 EXCEPT !.postReply = reply]
        res == callRPC(reply)
    IN  IF res.err THEN OnPostError(r, res.text)
        ELSE IF res.value.k # "map" THEN Panic(r)
        ELSE Respond([r EXCEPT !.responsePayload = res.value])

(***************************************************************************)
(* Actions                                                                 *)
(***************************************************************************)
Init ==
    /\ proc = "starting"
    /\ file \in ConfigFiles
    /\ flag \in ServerFlags
    /\ llsed = NoInstance
    /\ req = [i \in Slots |-> IdleReq]
    /\ served = 0

\* main: build the proxy or exit; then ListenAndServe, which may fail to bind
Main ==
    /\ proc = "starting"
    /\ LET inst == NewLLMSed(file, TrimSuffix(flag))
       IN  IF inst.ok
           THEN /\ llsed' = inst
                /\ \E listening \in BOOLEAN :
                      proc' = IF listening THEN "serving" ELSE "exited"
           ELSE /\ llsed' = llsed
                /\ proc' = "exited"
    /\ UNCHANGED <<file, flag, req, served>>

\* a request arrives and handleProxy runs up to its first outbound call
HandleProxy(i) ==
    /\ proc = "serving"
    /\ req[i].pc = "idle"
    /\ served < MaxServed
    /\ \E in \in Inbounds, body \in InboundBodies, readOK \in BOOLEAN :
          req' = [req EXCEPT ![i] = Receive(llsed, in, body, readOK)]
    /\ served' = served + 1
    /\ UNCHANGED <<proc, file, flag, llsed>>

PreReturn(i) ==
    /\ req[i].pc = "pre_wait"
    /\ \E reply \in RPCReplies :
          req' = [req EXCEPT ![i] = OnPreReply(req[i], llsed, reply)]
    /\ UNCHANGED <<proc, file, flag, llsed, served>>

TargetReturn(i) ==
    /\ req[i].pc = "fwd_wait"
    /\ \E reply \in TargetReplies :
          req' = [req EXCEPT ![i] = OnTargetReply(req[i], reply)]
    /\ UNCHANGED <<proc, file, flag, llsed, served>>

PostReturn(i) ==
    /\ req[i].pc = "post_wait"
    /\ \E reply \in RPCReplies :
          req' = [req EXCEPT ![i] = OnPostReply(req[i], reply)]
    /\ UNCHANGED <<proc, file, flag, llsed, served>>

\* a handler that drops the rule it has used when it returns
FinishDropRule(i) ==
    /\ req[i].pc \in {"done", "panicked"}
    /\ req' = [req EXCEPT ![i] = IdleReq]
    /\ llsed' = [llsed EXCEPT !.config = IF Len(@) > 1 THEN Tail(@) ELSE @]
    /\ UNCHANGED <<proc, file, flag, served>>

\* the handler has returned (or panicked): its goroutine and locals are gone
Finish(i) ==
    /\ req[i].pc \in {"done", "panicked"}
    /\ req' = [req EXCEPT ![i] = IdleReq]
    /\ UNCHANGED <<proc, file, flag, llsed, served>>

Next ==
    \/ Main
    \/ \E i \in Slots : HandleProxy(i)
    \/ \E i \in Slots : PreReturn(i)
    \/ \E i \in Slots : TargetReturn(i)
    \/ \E i \in Slots : PostReturn(i)
    \/ \E i \in Slots : Finish(i)

Spec == Init /\ [][Next]_vars

(***************************************************************************)
(* Several handler goroutines against transform services and a target that *)
(* are deterministic functions of the call they receive.                   *)
(***************************************************************************)
Workers == {1, 2}

DetConfigFiles ==
    {f \in ConfigFiles :
        f.parses /\ f.rules \in {<<TransformRule("r0", "", "")>>,
                                 <<TransformRule("r0", Pre0, Post0),
                                   TransformRule("r1", Pre1, Post1)>>}}

\* the transform services: pre0 rejects a null document and returns any other
\* unchanged, post0 is down for a null document and answers the fixed object
\* otherwise, pre1 answers the fixed object, post1 answers with an array
DetRPCReply(call) ==
    IF call.url = <<Pre0>>
    THEN IF call.body = WNull
         THEN [t |-> "env", result |-> WNull, error |-> WStr("boom")]
         ELSE [t |-> "env", result |-> call.body, error |-> WNull]
    ELSE IF call.url = <<Post0>>
    THEN IF call.body = WNull
         THEN [t |-> "connfail", result |-> WNull, error |-> WNull]
         ELSE [t |-> "env", result |-> ObjT, error |-> WNull]
    ELSE IF call.url = <<Pre1>>
    THEN [t |-> "env", result |-> ObjT, error |-> WNull]
    ELSE [t |-> "env", result |-> WArr, error |-> WNull]

\* the target: echoes the document it receives, with 500 and two header
\* values for GET and 200 otherwise; it answers the fixed object with a body
\* that is not JSON
DetTargetReply(call) ==
    LET b  == IF call.body = ObjT THEN WInvalid ELSE call.body
        hd == CHOOSE h \in TargetHeads(b) :
                  /\ h.status = IF call.method = "GET" THEN 500 ELSE 200
                  /\ "Content-Length" \in DOMAIN h.header
    IN  [t |-> "resp", status |-> hd.status, header |-> hd.header, body |-> b,
         readOK |-> TRUE]

LastCall(r) == r.calls[Len(r.calls)]

InitDet ==
    /\ proc = "starting"
    /\ file \in DetConfigFiles
    /\ flag = <<"http://target", "/">>
    /\ llsed = NoInstance
    /\ req = [i \in Workers |-> IdleReq]
    /\ served = 0

DetPreReturn(i) ==
    /\ req[i].pc = "pre_wait"
    /\ req' = [req EXCEPT ![i] = OnPreReply(req[i], llsed, DetRPCReply(LastCall(req[i])))]
    /\ UNCHANGED <<proc, file, flag, llsed, served>>

DetTargetReturn(i) ==
    /\ req[i].pc = "fwd_wait"
    /\ req' = [req EXCEPT ![i] = OnTargetReply(req[i], DetTargetReply(LastCall(req[i])))]
    /\ UNCHANGED <<proc, file, flag, llsed, served>>

DetPostReturn(i) ==
    /\ req[i].pc = "post_wait"
    /\ req' = [req EXCEPT ![i] = OnPostReply(req[i], DetRPCReply(LastCall(req[i])))]
    /\ UNCHANGED <<proc, file, flag, llsed, served>>

NextDet ==
    \/ Main
    \/ \E i \in Workers : HandleProxy(i)
    \/ \E i \in Workers : DetPreReturn(i)
    \/ \E i \in Workers : DetTargetReturn(i)
    \/ \E i \in Workers : DetPostReturn(i)
    \/ \E i \in Workers : Finish(i)

SpecDet == InitDet /\ [][NextDet]_vars

(***************************************************************************)
(* Properties                                                              *)
(***************************************************************************)
\* the text holds, at any depth, a number outside the float64 range
RECURSIVE HasHuge(_)
HasHuge(w) ==
    \/ w.k = "huge"
    \/ w.k = "obj" /\ \E k \in 1..Len(w.m) : HasHuge(w.m[k].val)
    \/ w.k = "arr" /\ \E k \in 1..Len(w.m) : HasHuge(w.m[k])

Ended(r) == r.pc \in {"done", "panicked"}
Forwards(r) == Cardinality({k \in 1..Len(r.calls) : r.calls[k].kind = "forward"})
RPCsTo(r, endpoint) ==
    Cardinality({k \in 1..Len(r.calls) :
                    r.calls[k].kind = "rpc" /\ r.calls[k].url = <<endpoint>>})
RuleSelected(r) == r.rule # NoRule
NoRuleText == <<Tok("no transformation rules configured")>>
\* an error response of the given status whose message starts with `prefix`
ErrorWith(r, code, prefix) ==
    /\ r.pc = "done"
    /\ r.resp.written
    /\ r.resp.status = code
    /\ Len(r.resp.text) > 0
    /\ r.resp.text[1] = Tok(prefix)
    /\ r.resp.body = NoBody

\* the inbound body is read in full and is a JSON object or null that the
\* decoder accepts (no number outside the float64 range)
BodyAccepted(r) ==
    /\ r.readOK
    /\ r.body.k \in {"obj", "null"}
    /\ ~HasHuge(r.body)

\* C1 as stated: with zero rules, EVERY request whose body has arrived,
\* whatever that body is, is answered 500 "no transformation rules
\* configured" with no outbound call.
C1_Original ==
    \A i \in Slots :
        (llsed.ok /\ Len(llsed.config) = 0 /\ req[i].pc # "idle" /\ req[i].readOK) =>
            /\ ErrorWith(req[i], StatusInternalServerError, NoRuleText[1].s)
            /\ req[i].calls = <<>>

\* C1 amended: with zero rules, every request whose body is read in full and
\* decodes (a JSON object or null) is answered 500 "no transformation rules
\* configured"; a body that is not read or does not decode is answered 400
\* first; in both cases no transform call and no forward call is issued.
C1_NoRuleAnswer ==
    \A i \in Slots :
        (llsed.ok /\ Len(llsed.config) = 0 /\ req[i].pc # "idle") =>
            /\ req[i].calls = <<>>
            /\ req[i].pc = "done"
            /\ IF BodyAccepted(req[i])
               THEN /\ ErrorWith(req[i], StatusInternalServerError, NoRuleText[1].s)
                    /\ req[i].resp.text = NoRuleText
               ELSE req[i].resp.status = StatusBadRequest

C1_Witness ==
    \E i \in Slots :
        /\ llsed.ok /\ Len(llsed.config) = 0
        /\ req[i].pc = "done"
        /\ req[i].method = "GET"
        /\ req[i].body = ObjSmall
        /\ req[i].resp.status = StatusInternalServerError

\* a transform reply without error indicator whose result is no JSON object
NonObjectResult(reply) ==
    /\ reply.t = "env"
    /\ reply.error.k = "null"
    /\ reply.result.k \in {"null", "num", "arr"}

\* C2: a transform call that returns, without error indicator, a result that is
\* not a JSON object ends the request with the 500 response of its stage
\* (and, for the pre stage, without a forward call).
C2_NonObjectResultIsError ==
    \A i \in Slots :
        /\ NonObjectResult(req[i].preReply) =>
              /\ ErrorWith(req[i], StatusInternalServerError, "pre-transform failed: ")
              /\ Forwards(req[i]) = 0
        /\ NonObjectResult(req[i].postReply) =>
              ErrorWith(req[i], StatusInternalServerError, "post-transform failed: ")

\* C3: every inbound body that is not a JSON object (invalid JSON, a scalar, an
\* array, null) is answered 400 and causes no transform and no forward call.
C3_NonObjectBodyRejected ==
    \A i \in Slots :
        (req[i].pc # "idle" /\ req[i].readOK /\ req[i].body.k # "obj") =>
            /\ req[i].pc = "done"
            /\ req[i].resp.written
            /\ req[i].resp.status = StatusBadRequest
            /\ req[i].calls = <<>>

\* the reply makes callRPC fail: transport failure, undecodable body (not JSON,
\* or a number the decoder rejects), or a non-null error field
TransformFailed(reply) ==
    \/ reply.t \in {"connfail", "garbage"}
    \/ /\ reply.t = "env"
       /\ \/ reply.error.k # "null"
          \/ HasHuge(reply.result)

\* C4: when the pre-transform call fails, the client gets a 500 whose message
\* names the pre-transform stage and no forward call was issued.
C4_PreFailureNoForward ==
    \A i \in Slots :
        TransformFailed(req[i].preReply) =>
            /\ ErrorWith(req[i], StatusInternalServerError, "pre-transform failed: ")
            /\ Forwards(req[i]) = 0
            /\ Len(req[i].calls) = 1

C4_Witness ==
    \E i \in Slots :
        /\ req[i].preReply.t = "connfail"
        /\ req[i].pc = "done"
        /\ req[i].resp.status = StatusInternalServerError
        /\ RPCsTo(req[i], Pre0) = 1

\* C5: with two or more rules, every transform call of every request goes to
\* the pre or post endpoint of the rule at index 0.
C5_OnlyFirstRule ==
    \A i \in Slots :
        (llsed.ok /\ Len(llsed.config) >= 2) =>
            \A k \in 1..Len(req[i].calls) :
                req[i].calls[k].kind = "rpc" =>
                    /\ req[i].calls[k].url \in {<<llsed.config[1].pre>>, <<llsed.config[1].post>>}
                    /\ req[i].calls[k].url \notin {<<Pre1>>, <<Post1>>}

C5_Witness ==
    \E i \in Slots :
        /\ llsed.ok /\ Len(llsed.config) >= 2
        /\ req[i].path = "/x"
        /\ RPCsTo(req[i], Pre0) = 1
        /\ RPCsTo(req[i], Post0) = 1
        /\ req[i].pc = "done"

\* C6: if the selected rule has no pre endpoint, no pre-transform call is made
\* and the document forwarded to the target equals the inbound document; if
\* it has no post endpoint, no post-transform call is made.
C6_SkippedStageLeavesPayload ==
    \A i \in Slots :
        RuleSelected(req[i]) =>
            /\ req[i].rule.pre = "" =>
                  \A k \in 1..Len(req[i].calls) :
                      /\ req[i].calls[k].kind = "rpc" => k > 1
                      /\ req[i].calls[k].kind = "forward" =>
                            DocOf(req[i].calls[k].body) = DocOf(req[i].body)
            /\ req[i].rule.post = "" =>
                  \A k \in 1..Len(req[i].calls) :
                      req[i].calls[k].kind = "rpc" => k = 1 /\ req[i].rule.pre # ""

\* the post-transform call has returned and failed
PostFailed(r) == TransformFailed(r.postReply)

\* C7: when the post-transform call fails, the client gets a 500 that names the
\* post-transform stage; exactly one forward call was made, before the post
\* call, and the post call is the last call of the request.
C7_PostFailureAfterOneForward ==
    \A i \in Slots :
        PostFailed(req[i]) =>
            /\ ErrorWith(req[i], StatusInternalServerError, "post-transform failed: ")
            /\ Forwards(req[i]) = 1
            /\ req[i].calls[Len(req[i].calls)].kind = "rpc"
            /\ req[i].calls[Len(req[i].calls) - 1].kind = "forward"

C7_Witness ==
    \E i \in Slots :
        /\ req[i].postReply.error = WStr("boom")
        /\ req[i].pc = "done"
        /\ Forwards(req[i]) = 1
        /\ RPCsTo(req[i], Post0) = 1

InvalidTargetText == <<Tok("invalid response from target")>>

\* C8: a target response whose body is not valid JSON is answered 502 with the
\* proxy's own plain-text message; the upstream status, headers and body are
\* not relayed and no post-transform call is made.  A connectivity failure of
\* the forward call is answered 502 too, with a different message.
C8_NonJSONTargetIsGatewayFailure ==
    \A i \in Slots :
        /\ (/\ req[i].fwdReply.t = "resp"
            /\ req[i].fwdReply.readOK
            /\ req[i].fwdReply.body.k = "invalid") =>
              /\ ErrorWith(req[i], StatusBadGateway, InvalidTargetText[1].s)
              /\ req[i].resp.text = InvalidTargetText
              /\ req[i].resp.status # req[i].fwdReply.status
              /\ DOMAIN req[i].resp.header = {"Content-Type", "X-Content-Type-Options"}
              /\ req[i].resp.header["Content-Type"] = <<"text/plain; charset=utf-8">>
              /\ \A n \in DOMAIN req[i].fwdReply.header :
                    n \notin DOMAIN req[i].resp.header
                    \/ req[i].resp.header[n] # req[i].fwdReply.header[n]
              /\ req[i].calls[Len(req[i].calls)].kind = "forward"
        /\ req[i].fwdReply.t = "connfail" =>
              /\ ErrorWith(req[i], StatusBadGateway, "failed to forward request: ")
              /\ req[i].resp.text # InvalidTargetText

C8_Witness ==
    \E i \in Slots :
        /\ req[i].fwdReply.t = "resp"
        /\ req[i].fwdReply.body = WInvalid
        /\ req[i].fwdReply.status = 200
        /\ req[i].rule.post = Post0
        /\ req[i].pc = "done"
        /\ req[i].resp.status = StatusBadGateway

\* C9: with no pre and no post configured, a request whose forward call returns
\* a JSON document is answered with the upstream status, every upstream
\* header with its values, and a body that is the same JSON document.
C9_RelayVerbatim ==
    \A i \in Slots :
        (/\ req[i].pc = "done"
         /\ RuleSelected(req[i])
         /\ req[i].rule.pre = "" /\ req[i].rule.post = ""
         /\ req[i].fwdReply.t = "resp"
         /\ req[i].fwdReply.readOK
         /\ req[i].fwdReply.body.k \in {"obj", "null"}) =>
            /\ req[i].resp.written
            /\ req[i].resp.status = req[i].fwdReply.status
            /\ req[i].resp.header = req[i].fwdReply.header
            /\ DocOf(req[i].resp.body) = DocOf(req[i].fwdReply.body)

\* C10: every handler activation that has ended has written one HTTP response
\* to its client (an error response with a plain-text message whenever a
\* stage failed), and the process is still serving.
C10_EveryFailureAnswered ==
    \A i \in Slots :
        Ended(req[i]) =>
            /\ proc = "serving"
            /\ req[i].resp.written
            /\ req[i].resp.text = <<>> =>
                  /\ req[i].fwdReply.t = "resp"
                  /\ req[i].resp.status = req[i].fwdReply.status

\* the positions of the pre-transform calls (transform calls before any
\* forward call) and of the post-transform calls (those after one)
PreCalls(r) ==
    {k \in 1..Len(r.calls) :
        r.calls[k].kind = "rpc" /\ \A j \in 1..k : r.calls[j].kind # "forward"}
PostCalls(r) ==
    {k \in 1..Len(r.calls) :
        r.calls[k].kind = "rpc" /\ \E j \in 1..k : r.calls[j].kind = "forward"}
ForwardCalls(r) == {k \in 1..Len(r.calls) : r.calls[k].kind = "forward"}

\* C11: within a request the stages run in the order Receive, SelectRule,
\* PreTransform, Forward, PostTransform, Respond: a rule is selected only for
\* a body that was received and decoded, calls are issued only with a rule
\* selected, the forward call is issued only after the pre-transform call
\* (if any) has returned, the post-transform call only after the forward call
\* has returned, and a success response is written only after the
\* post-transform call (if any) has returned.
C11_StagesInOrder ==
    \A i \in Slots :
        LET r == req[i] IN
        /\ RuleSelected(r) => BodyAccepted(r)
        /\ r.calls # <<>> => RuleSelected(r)
        /\ r.preReply.t # "none" => PreCalls(r) # {}
        /\ \A k \in ForwardCalls(r) :
              IF r.rule.pre = "" THEN k = 1 /\ r.preReply.t = "none"
              ELSE k = 2 /\ PreCalls(r) = {1} /\ r.preReply.t # "none"
        /\ r.fwdReply.t # "none" => ForwardCalls(r) # {}
        /\ \A k \in PostCalls(r) :
              /\ r.calls[k - 1].kind = "forward"
              /\ r.fwdReply.t = "resp"
              /\ r.calls[k].url = <<r.rule.post>>
        /\ r.postReply.t # "none" => PostCalls(r) # {}
        /\ (r.resp.written /\ r.resp.text = <<>>) =>
              /\ r.fwdReply.t = "resp"
              /\ r.rule.post # "" => (r.postReply.t # "none" /\ PostCalls(r) # {})

C11_Witness ==
    \E i \in Slots :
        /\ req[i].pc = "done"
        /\ req[i].resp.written /\ req[i].resp.text = <<>>
        /\ Len(req[i].calls) = 3
        /\ req[i].calls[1].url = <<Pre0>>
        /\ req[i].calls[2].kind = "forward"
        /\ req[i].calls[3].url = <<Post0>>

\* C12: no retries: whatever the calls return, a request issues at most one
\* pre-transform call, at most one forward call and at most one
\* post-transform call.
C12_NoRetries ==
    \A i \in Slots :
        /\ Cardinality(PreCalls(req[i])) <= 1
        /\ Cardinality(ForwardCalls(req[i])) <= 1
        /\ Cardinality(PostCalls(req[i])) <= 1

C12_Witness ==
    \E i \in Slots :
        /\ req[i].pc = "done"
        /\ req[i].preReply.t = "env"
        /\ req[i].postReply.t = "connfail"
        /\ Cardinality(PreCalls(req[i])) = 1
        /\ Cardinality(ForwardCalls(req[i])) = 1
        /\ Cardinality(PostCalls(req[i])) = 1

\* the reply is a response envelope with a non-null error field
ErrorSet(reply) == reply.t = "env" /\ reply.error.k # "null"
\* the reply is an envelope without error whose result is a decodable object
ObjectResult(reply) ==
    /\ reply.t = "env"
    /\ reply.error.k = "null"
    /\ reply.result.k = "obj"
    /\ ~HasHuge(reply.result)
RPCErrorText(stage, reply) ==
    <<Tok(stage), Tok("rpc error: "), ValTok(UnmarshalAny(reply.error))>>

\* C13: an envelope with a non-null error field makes the transform call fail
\* whatever its result field holds: the stage answers 500 with a message that
\* carries the error field's content and the result is not used (no forward
\* call after a pre failure, no relayed body after a post failure); an
\* envelope without error whose result is an object succeeds: its result
\* becomes the in-flight payload and the stage reports no failure.
C13_ErrorFieldWins ==
    \A i \in Slots :
        LET r == req[i] IN
        /\ ErrorSet(r.preReply) =>
              /\ ErrorWith(r, StatusInternalServerError, "pre-transform failed: ")
              /\ r.resp.text = RPCErrorText("pre-transform failed: ", r.preReply)
              /\ Forwards(r) = 0
        /\ ErrorSet(r.postReply) =>
              /\ ErrorWith(r, StatusInternalServerError, "post-transform failed: ")
              /\ r.resp.text = RPCErrorText("post-transform failed: ", r.postReply)
        /\ ObjectResult(r.preReply) =>
              /\ r.payload = UnmarshalAny(r.preReply.result)
              /\ r.resp.text = <<>> \/ r.resp.text[1] # Tok("pre-transform failed: ")
              /\ ValidURL(llsed.serverURL \o <<r.path>>) => Forwards(r) = 1
        /\ ObjectResult(r.postReply) =>
              /\ r.responsePayload = UnmarshalAny(r.postReply.result)
              /\ r.resp.text = <<>>
              /\ r.pc \in {"done", "panicked"}

C13_Witness ==
    \E i \in Slots :
        /\ req[i].preReply.t = "env"
        /\ req[i].preReply.error = WStr("boom")
        /\ req[i].preReply.result = ObjT
        /\ req[i].pc = "done"
        /\ req[i].resp.status = StatusInternalServerError

\* the request has failed: an error response was written or the handler panicked
Failed(r) == (r.resp.written /\ r.resp.text # <<>>) \/ r.pc = "panicked"

\* C14: once a stage of a request has failed the request is terminal: no step
\* changes it any more (no further call, no second response) until its
\* handler activation is discarded.
C14_FailureIsTerminal ==
    [][\A i \in Slots : Failed(req[i]) => req'[i] \in {req[i], IdleReq}]_vars

C14_Witness ==
    \E i \in Slots :
        /\ Failed(req[i])
        /\ req[i].pc = "done"
        /\ req[i].preReply.t = "connfail"
        /\ Len(req[i].calls) = 1

\* C18: when the configuration file cannot be read or does not parse, the load
\* fails with a configuration error, no proxy instance ever exists and the
\* process never serves a request; a file that parses to zero rules loads (an
\* instance with an empty ruleset exists once main has run) and every request
\* the process then receives is rejected with an error response and without
\* any outbound call.
C18_LoadFailureIsFatal ==
    /\ (~file.readable \/ ~file.parses) =>
          /\ ~NewLLMSed(file, TrimSuffix(flag)).ok
          /\ NewLLMSed(file, TrimSuffix(flag)).err
                \in {"failed to read config", "failed to parse config"}
          /\ llsed = NoInstance
          /\ proc \in {"starting", "exited"}
          /\ served = 0
          /\ \A i \in Slots : req[i] = IdleReq
    /\ (file.readable /\ file.parses /\ file.rules = <<>> /\ proc # "starting") =>
          /\ llsed.ok /\ llsed.config = <<>>
          /\ \A i \in Slots :
                req[i].pc # "idle" =>
                    /\ req[i].pc = "done"
                    /\ req[i].resp.written
                    /\ req[i].resp.text # <<>>
                    /\ req[i].resp.status \in {StatusBadRequest, StatusInternalServerError}
                    /\ req[i].calls = <<>>

C18_Witness ==
    /\ file.readable /\ file.parses /\ file.rules = <<>>
    /\ proc = "serving"
    /\ served = MaxServed
    /\ \E i \in Slots :
          /\ req[i].pc = "done"
          /\ req[i].method = "POST"
          /\ req[i].body = ObjUnsorted
          /\ req[i].resp.text = NoRuleText

\* C19: payload hand-off: after a successful pre-transform call the document
\* forwarded to the target is exactly the call's result; the payload of the
\* post-transform call is exactly the document the target returned; after a
\* successful post-transform call the body sent to the client is exactly the
\* call's result.
C19_HandOffExact ==
    \A i \in Slots :
        LET r == req[i] IN
        /\ ObjectResult(r.preReply) =>
              \A k \in ForwardCalls(r) :
                  DocOf(r.calls[k].body) = DocOf(r.preReply.result)
        /\ \A k \in PostCalls(r) :
              DocOf(r.calls[k].body) = DocOf(r.fwdReply.body)
        /\ (ObjectResult(r.postReply) /\ r.resp.written) =>
              DocOf(r.resp.body) = DocOf(r.postReply.result)

\* C20: the pipeline does not branch on the upstream status: whatever status
\* the target returns with a JSON-object body, the post-transform call is
\* issued when the rule has a post endpoint, a response relayed to the client
\* carries that status and the serialized in-flight response document, and
\* the only failure that can follow is one of the post-transform call, never
\* a gateway failure made up by the proxy.
C20_NoBranchOnUpstreamStatus ==
    \A i \in Slots :
        LET r == req[i] IN
        (r.fwdReply.t = "resp" /\ r.fwdReply.readOK /\ r.fwdReply.body.k = "obj") =>
            /\ r.target.status = r.fwdReply.status
            /\ PostConfigured(r.rule) =>
                  /\ Cardinality(PostCalls(r)) = 1
                  /\ \A k \in PostCalls(r) :
                        r.calls[k] = RPCCall(r.rule.post, UnmarshalMap(r.fwdReply.body))
            /\ ~PostConfigured(r.rule) => r.pc = "done" /\ r.resp.text = <<>>
            /\ (r.resp.written /\ r.resp.text = <<>>) =>
                  /\ r.resp.status = r.fwdReply.status
                  /\ r.resp.body = Marshal(r.responsePayload)
                  /\ r.responsePayload =
                        IF PostConfigured(r.rule) THEN UnmarshalAny(r.postReply.result)
                        ELSE UnmarshalMap(r.fwdReply.body)
            /\ (r.resp.written /\ r.resp.text # <<>>) =>
                  /\ TransformFailed(r.postReply)
                  /\ ErrorWith(r, StatusInternalServerError, "post-transform failed: ")
            /\ r.pc = "panicked" => NonObjectResult(r.postReply)

\* C15: the forward call carries the inbound method, the URL made of the
\* target base URL (the --server flag without its trailing slash) followed by
\* the inbound path, and the inbound header set the handler received: the
\* same header names, each with all its values in order, nothing else.
C15_ForwardMirrorsInbound ==
    \A i \in Slots :
        \A k \in ForwardCalls(req[i]) :
            LET r == req[i]
                c == r.calls[k]
            IN  /\ c.method = r.method
                /\ llsed.serverURL = TrimSuffix(flag)
                /\ llsed.serverURL[Len(llsed.serverURL)] # "/"
                /\ c.url = llsed.serverURL \o <<r.path>>
                /\ DOMAIN c.header = DOMAIN r.header
                /\ \A n \in DOMAIN r.header : c.header[n] = r.header[n]

C15_Witness ==
    \E i \in Slots :
        /\ flag = <<"http://target", "/">>
        /\ req[i].method = "GET"
        /\ req[i].path = "/x"
        /\ req[i].header["Accept"] = <<"a", "b">>
        /\ req[i].preReply.t = "env"
        /\ \E k \in ForwardCalls(req[i]) :
              /\ req[i].calls[k].url = <<"http://target", "/x">>
              /\ req[i].calls[k].header["Accept"] = <<"a", "b">>
              /\ req[i].calls[k].header["X-Id"] = <<"7">>

\* two handler activations were given the same inbound request
SameInbound(r1, r2) ==
    /\ r1.method = r2.method
    /\ r1.path = r2.path
    /\ r1.header = r2.header
    /\ r1.body = r2.body
    /\ r1.readOK = r2.readOK

\* C16: determinism: with the ruleset as loaded and transform services and a
\* target that are deterministic functions of the call they receive, two
\* executions of the same inbound request, one after the other or
\* interleaved, end the same way: both answer with the same status, the same
\* headers and the same body bytes (or neither answers).
C16_SameRequestSameResponse ==
    \A i \in DOMAIN req : \A j \in DOMAIN req :
        (Ended(req[i]) /\ Ended(req[j]) /\ SameInbound(req[i], req[j])) =>
            /\ req[i].pc = req[j].pc
            /\ req[i].resp = req[j].resp

C16_Witness ==
    /\ served = 2
    /\ Len(llsed.config) = 2
    /\ req[1].pc = "done" /\ req[2].pc = "done"
    /\ SameInbound(req[1], req[2])
    /\ req[1].body = ObjUnsorted
    /\ req[1].method = "GET"
    /\ req[1].resp.written /\ req[1].resp.text = <<>>
    /\ req[1].resp.status = 500
    /\ req[2].resp = req[1].resp

\* one step of a handler activation against the deterministic services
AloneStep(r, inst) ==
    IF r.pc = "pre_wait" THEN OnPreReply(r, inst, DetRPCReply(LastCall(r)))
    ELSE IF r.pc = "fwd_wait" THEN OnTargetReply(r, DetTargetReply(LastCall(r)))
    ELSE IF r.pc = "post_wait" THEN OnPostReply(r, DetRPCReply(LastCall(r)))
    ELSE r

\* the states a request with r's inbound data passes through when it is the
\* only request the proxy instance inst ever handles
AloneStates(r, inst) ==
    LET s0 == Receive(inst, [method |-> r.method, path |-> r.path, header |-> r.header],
                      r.body, r.readOK)
        s1 == AloneStep(s0, inst)
        s2 == AloneStep(s1, inst)
        s3 == AloneStep(s2, inst)
    IN  {s0, s1, s2, s3}

Isolated ==
    \A i \in DOMAIN req :
        req[i] # IdleReq => req[i] \in AloneStates(req[i], NewLLMSed(file, TrimSuffix(flag)))

\* C17: requests handled concurrently do not interact: once loaded, the
\* ruleset and the target base URL are never written again, and in every
\* interleaving each in-flight request's payloads, outbound calls and response
\* are those of a run in which it is the only request.
C17_NoInteraction ==
    /\ []Isolated
    /\ [][llsed.ok => llsed' = llsed]_vars

C17_Witness ==
    /\ llsed.ok
    /\ llsed.config = file.rules
    /\ Len(llsed.config) = 2
    /\ req[1].pc = "post_wait"
    /\ req[1].body = ObjSmall
    /\ req[2].pc = "pre_wait"
    /\ req[2].body = WNull
    /\ served = 2

=============================================================================
